---- MODULE Spec2Model ----
(***************************************************************************)
(* Net-Rewire: the Ubuntu tunnel server (src/ubuntu/tunnel_server.c) and   *)
(* the packet classifier (src/macos/NetRewirePacketTunnel/pktparse.c).     *)
(*                                                                         *)
(* Spec / FairSpec : the server process: the accept loop of main(), the    *)
(*                   signal handler, one handle_client() thread per        *)
(*                   accepted connection, and the environment they talk to *)
(*                   (the peers, the network, the TUN device, the kernel). *)
(* ArrivalSpec     : FairSpec where, moreover, what a peer sent arrives.   *)
(* ParseSpec       : pkt_parse() run statement by statement on one buffer. *)
(***************************************************************************)
EXTENDS Integers, Sequences, FiniteSets, TLC

VARIABLES
    running,    \* static volatile int running            (tunnel_server.c:28)
    proc,       \* the process: "up", "exited" (main returned), "killed" (SIGPIPE)
    mainpc,     \* main(): "check" (l.278), "accept" (l.280), "cleanup" (l.315), "returned"
    listenfd,   \* server_fd: "open" / "closed"
    nconn,      \* connections accept() has returned so far; they are numbered 1..nconn
    conn,       \* per connection: the client socket and the byte stream behind it
    tun,        \* per connection: the TUN handle of its session and the packets behind it
    sess,       \* per connection: the handle_client() thread and its locals
    ppc,        \* pkt_parse(): the statement it is at
    buf,        \* pkt_parse(): the input bytes buf[0..len-1] (a sequence, 1-based)
    info,       \* pkt_parse(): struct pkt_info *info
    ihl,        \* pkt_parse(): int ihl
    ret,        \* pkt_parse(): the value returned, -1 while running
    reads,      \* pkt_parse(): the byte offsets of buf read so far
    checked     \* pkt_parse(): the largest L for which a passed check established len >= L

serverVars == <<running, proc, mainpc, listenfd, nconn, conn, tun, sess>>
parseVars == <<ppc, buf, info, ihl, ret, reads, checked>>
vars == <<running, proc, mainpc, listenfd, nconn, conn, tun, sess,
          ppc, buf, info, ihl, ret, reads, checked>>

----------------------------------------------------------------------------
(* Bounds of the model. *)

\* what the environment gives the server: connections that accept() returns,
\* plus the frames and packets that wait on or went through the open ones
MaxLoad == 3
\* longest payload of a well-formed frame, and longest TUN packet, in bytes
MaxPayload == 2

(* Program constants. *)

\* if (packet_length > 65535 || ...), char packet_buffer[65535]
MAX_PACKET == 65535
\* recv(client_fd, &packet_length, 4, 0), send(client_fd, &packet_length, 4, 0)
PREFIX_LEN == 4

Conns == 1..MaxLoad

\* the threads, as the callers of close(): main, and c for the handle_client
\* thread of connection c
MainThread == 0

Min(a, b) == IF a < b THEN a ELSE b

RECURSIVE Flatten(_)
Flatten(ss) == IF ss = <<>> THEN <<>> ELSE Head(ss) \o Flatten(Tail(ss))

----------------------------------------------------------------------------
(* The wire format. *)

\* htonl(n) as the 4 bytes it puts in memory, first byte first
htonl(n) ==
    << (n \div 16777216) % 256, (n \div 65536) % 256, (n \div 256) % 256, n % 256 >>

\* ntohl of the 4 bytes held in memory, first byte first
ntohl(b) ==
    b[1] * 16777216 + b[2] * 65536 + b[3] * 256 + b[4]

\* the bytes of one frame as the peer (or the session) puts it on the stream
Encode(payload) == htonl(Len(payload)) \o payload

\* the length test of handle_client: TRUE when the frame is rejected
InvalidLength(packet_length) ==
    packet_length > MAX_PACKET \/ packet_length = 0

----------------------------------------------------------------------------
(* The environment's data: what peers send and what the TUN device delivers. *)

\* byte i of the payload of the k-th frame a peer sends
DataByte(k, i) == (10 * k + i) % 256

\* byte i of the k-th packet a TUN device delivers
TunByte(k, i) == (100 + 10 * k + i) % 256

\* the declared lengths a peer puts in a prefix: well-formed ones, 0, and one too large
DeclaredLengths == (1..MaxPayload) \cup {0, MAX_PACKET + 1}

\* the k-th frame of a peer, declaring length d: a malformed frame is its prefix alone
Frame(k, d) ==
    [declared |-> d,
     payload  |-> IF d \in 1..MaxPayload THEN [i \in 1..d |-> DataByte(k, i)] ELSE <<>>]

WellFormed(f) == f.declared >= 1 /\ f.declared <= MAX_PACKET

FrameBytes(f) == htonl(f.declared) \o f.payload

\* every byte the peer has put on the stream of socket s so far
Wire(s) == Flatten([k \in 1..Len(s.sent) |-> FrameBytes(s.sent[k])])

\* the bytes of the stream of socket s that the session has not read yet
Remaining(s) == Len(Wire(s)) - s.rpos

\* the values an uninitialized byte of packet_length may hold
UninitBytes == {0, 1}

RECURSIVE TrafficUpTo(_)
TrafficUpTo(n) ==
    IF n = 0 THEN 0
    ELSE Len(conn[n].sent) + Len(tun[n].queue) + Len(tun[n].rd) + TrafficUpTo(n - 1)

\* frames sent by the peers and packets that arrived on the TUN devices of the
\* connections that are open
Traffic == TrafficUpTo(MaxLoad)

Load == nconn + Traffic

----------------------------------------------------------------------------
(* The initial state: main() has bound and listens (l.275); no connection yet. *)

\* fd: "none", "open", "closed"; closes: the close() calls made on it and by
\* whom; sent: the frames the peer has sent; rpos: the bytes of them the session
\* has read; peer: "open", "fin" (the peer has closed), "finsent" (and the
\* session has sent it bytes since); out: the bytes the session has sent;
\* late: accept() returned the socket when running was 0 already
NoConn ==
    [fd |-> "none", closes |-> 0, by |-> {}, sent |-> <<>>, rpos |-> 0,
     peer |-> "open", out |-> <<>>, late |-> FALSE]

\* queue: the packets waiting to be read; rd: the packets read; nwr: how many
\* packets were handed to write()
NoTun == [fd |-> "none", closes |-> 0, queue |-> <<>>, rd |-> <<>>, nwr |-> 0]

\* pc: "none" (no thread), "start" (l.85), "configure" (l.104), "loop" (l.120),
\* "select" (l.126), "sock" (l.139), "tun" (l.181), "cleanup" (l.214), "done"
\* (returned), "gone" (ended by the end of the process). activity is what
\* select returned (0 before the first call), ready is read_fds after select. Of the current iteration: packet_length as validated,
\* packet_buffer[0..bytes_read-1] as handed to write(), got the bytes the recv
\* of the prefix returned, at the stream offset it started at, sockev how
\* l.120-178 ended (<<"while", "stop">> when l.120 found running = 0,
\* <<"select", "error">> for the break of l.130, else the call of l.139-178
\* that ended them and its result; <<"cleanup", "done">> once l.214-220 have
\* run), tunev how l.181-211 ended.
NoSess ==
    [pc |-> "none", activity |-> 0, ready |-> {}, packet_length |-> 0,
     packet_buffer |-> <<>>, got |-> 0, at |-> 0,
     sockev |-> <<"-", "-">>, tunev |-> <<"-", "-">>]

ServerInit ==
    /\ running = 1
    /\ proc = "up"
    /\ mainpc = "check"
    /\ listenfd = "open"
    /\ nconn = 0
    /\ conn = [c \in Conns |-> NoConn]
    /\ tun = [c \in Conns |-> NoTun]
    /\ sess = [c \in Conns |-> NoSess]

ParseIdle ==
    /\ ppc = "idle"
    /\ buf = <<>>
    /\ info = <<>>
    /\ ihl = 0
    /\ ret = -1
    /\ reads = {}
    /\ checked = 0

Init == ServerInit /\ ParseIdle

----------------------------------------------------------------------------
(* close(): the handle is released and the call is counted. *)

\* A closed handle has no stream or packets behind it any more.
Close(h, who) ==
    [NoConn EXCEPT !.fd = "closed", !.closes = h.closes + 1, !.by = h.by \cup {who}]

CloseTun(h) == [NoTun EXCEPT !.fd = "closed", !.closes = h.closes + 1]

\* process exit: the kernel releases every handle that is still open
Released(h, none) ==
    IF h.fd = "open" THEN [none EXCEPT !.fd = "closed", !.closes = h.closes] ELSE h

\* process exit: a thread that has not returned ends where it is
Ended(th) == IF th.pc \in {"none", "done"} THEN th ELSE [NoSess EXCEPT !.pc = "gone"]

----------------------------------------------------------------------------
(* signal_handler and main() *)

\* signal_handler (l.224-227), run on a thread that is in no interruptible call,
\* or on main while accept() is restarted after the handler (signal() of glibc
\* installs handlers with SA_RESTART)
SignalHandler ==
    /\ proc = "up"
    /\ running' = 0
    /\ UNCHANGED <<proc, mainpc, listenfd, nconn, conn, tun, sess, parseVars>>

\* signal_handler run on main inside accept(): accept fails with EINTR,
\* l.282-287 take the continue
SignalInterruptsAccept ==
    /\ proc = "up"
    /\ mainpc = "accept"
    /\ running' = 0
    /\ mainpc' = "check"
    /\ UNCHANGED <<proc, listenfd, nconn, conn, tun, sess, parseVars>>

\* signal_handler run on a session thread inside select(): select fails with
\* EINTR and leaves read_fds as FD_SET filled it; l.128 does not break and
\* l.133 does not continue, so the iteration goes on with both bits set
SignalInterruptsSelect(c) ==
    /\ proc = "up"
    /\ sess[c].pc = "select"
    /\ running' = 0
    /\ sess' = [sess EXCEPT ![c].pc = "sock", ![c].activity = -1,
                             ![c].ready = {"sock", "tun"}]
    /\ UNCHANGED <<proc, mainpc, listenfd, nconn, conn, tun, parseVars>>

\* while (running) of main, l.278
MainCheck ==
    /\ proc = "up"
    /\ mainpc = "check"
    /\ mainpc' = IF running # 0 THEN "accept" ELSE "cleanup"
    /\ UNCHANGED <<running, proc, listenfd, nconn, conn, tun, sess, parseVars>>

\* accept() fails with an errno other than EINTR: perror, continue (l.282-287)
AcceptFail ==
    /\ proc = "up"
    /\ mainpc = "accept"
    /\ mainpc' = "check"
    /\ UNCHANGED <<running, proc, listenfd, nconn, conn, tun, sess, parseVars>>

\* accept() returns a socket and malloc fails: close(client_fd), continue (l.290-295)
AcceptAllocFail ==
    /\ proc = "up"
    /\ mainpc = "accept"
    /\ Load < MaxLoad
    /\ nconn' = nconn + 1
    /\ conn' = [conn EXCEPT ![nconn + 1] = Close([NoConn EXCEPT !.fd = "open"], MainThread)]
    /\ mainpc' = "check"
    /\ UNCHANGED <<running, proc, listenfd, tun, sess, parseVars>>

\* accept() returns a socket and pthread_create fails: free, close(client_fd),
\* continue (l.302-307)
AcceptSpawnFail ==
    /\ proc = "up"
    /\ mainpc = "accept"
    /\ Load < MaxLoad
    /\ nconn' = nconn + 1
    /\ conn' = [conn EXCEPT ![nconn + 1] = Close([NoConn EXCEPT !.fd = "open"], MainThread)]
    /\ mainpc' = "check"
    /\ UNCHANGED <<running, proc, listenfd, tun, sess, parseVars>>

\* AcceptSpawn as it would be with a close(client_fd) in main after
\* pthread_create, as after a fork: C20 does not hold of it
AcceptSpawnCloses ==
    /\ proc = "up"
    /\ mainpc = "accept"
    /\ Load < MaxLoad
    /\ nconn' = nconn + 1
    /\ conn' = [conn EXCEPT ![nconn + 1] = Close([NoConn EXCEPT !.fd = "open"], MainThread)]
    /\ sess' = [sess EXCEPT ![nconn + 1].pc = "start"]
    /\ mainpc' = "check"
    /\ UNCHANGED <<running, proc, listenfd, tun, parseVars>>

\* accept() returns a socket and the session thread is created and detached
\* (l.280-310)
AcceptSpawn ==
    /\ proc = "up"
    /\ mainpc = "accept"
    /\ Load < MaxLoad
    /\ nconn' = nconn + 1
    /\ conn' = [conn EXCEPT ![nconn + 1] =
                  [NoConn EXCEPT !.fd = "open", !.late = (running = 0)]]
    /\ sess' = [sess EXCEPT ![nconn + 1].pc = "start"]
    /\ mainpc' = "check"
    /\ UNCHANGED <<running, proc, listenfd, tun, parseVars>>

\* l.313-317: close(server_fd); return 0. Returning from main ends the process:
\* the detached session threads end where they are and the kernel releases
\* the handles they still hold.
MainCleanup ==
    /\ proc = "up"
    /\ mainpc = "cleanup"
    /\ listenfd' = "closed"
    /\ mainpc' = "returned"
    /\ proc' = "exited"
    /\ conn' = [c \in Conns |-> Released(conn[c], NoConn)]
    /\ tun' = [c \in Conns |-> Released(tun[c], NoTun)]
    /\ sess' = [c \in Conns |-> Ended(sess[c])]
    /\ UNCHANGED <<running, nconn, parseVars>>

----------------------------------------------------------------------------
(* handle_client: setup (l.85-117) *)

\* create_tun_device: open("/dev/net/tun") fails (l.42-45); l.96-101
CreateTunOpenFail(c) ==
    /\ proc = "up"
    /\ sess[c].pc = "start"
    /\ conn' = [conn EXCEPT ![c] = Close(@, c)]
    /\ sess' = [sess EXCEPT ![c].pc = "done"]
    /\ UNCHANGED <<running, proc, mainpc, listenfd, nconn, tun, parseVars>>

\* create_tun_device: open succeeds, ioctl(TUNSETIFF) fails, close(tun_fd)
\* (l.52-56); l.96-101
CreateTunIoctlFail(c) ==
    /\ proc = "up"
    /\ sess[c].pc = "start"
    /\ tun' = [tun EXCEPT ![c] = CloseTun([@ EXCEPT !.fd = "open"])]
    /\ conn' = [conn EXCEPT ![c] = Close(@, c)]
    /\ sess' = [sess EXCEPT ![c].pc = "done"]
    /\ UNCHANGED <<running, proc, mainpc, listenfd, nconn, parseVars>>

\* create_tun_device returns the handle (l.58-59). TUNSETIFF attaches to the
\* fixed name TUN_DEVICE; while another handle is attached to that device the
\* ioctl fails (EBUSY), so one session at a time holds the interface.
CreateTunOk(c) ==
    /\ proc = "up"
    /\ sess[c].pc = "start"
    /\ \A d \in Conns : tun[d].fd # "open"
    /\ tun' = [tun EXCEPT ![c].fd = "open"]
    /\ sess' = [sess EXCEPT ![c].pc = "configure"]
    /\ UNCHANGED <<running, proc, mainpc, listenfd, nconn, conn, parseVars>>

\* ConfigureFail as it would be without the close(tun_fd) of l.107: C16 does
\* not hold of it
ConfigureFailLeak(c) ==
    /\ proc = "up"
    /\ sess[c].pc = "configure"
    /\ conn' = [conn EXCEPT ![c] = Close(@, c)]
    /\ sess' = [sess EXCEPT ![c].pc = "done"]
    /\ UNCHANGED <<running, proc, mainpc, listenfd, nconn, tun, parseVars>>

\* configure_tun_device fails (l.68-78); l.104-110
ConfigureFail(c) ==
    /\ proc = "up"
    /\ sess[c].pc = "configure"
    /\ tun' = [tun EXCEPT ![c] = CloseTun(@)]
    /\ conn' = [conn EXCEPT ![c] = Close(@, c)]
    /\ sess' = [sess EXCEPT ![c].pc = "done"]
    /\ UNCHANGED <<running, proc, mainpc, listenfd, nconn, parseVars>>

\* ConfigureOk as it would be with do { ... } while (running) at l.120: the
\* first iteration starts without the test. C19 does not hold of it
ConfigureOkDoWhile(c) ==
    /\ proc = "up"
    /\ sess[c].pc = "configure"
    /\ sess' = [sess EXCEPT ![c].pc = "select"]
    /\ UNCHANGED <<running, proc, mainpc, listenfd, nconn, conn, tun, parseVars>>

\* configure_tun_device succeeds; both handles are made non-blocking (l.112-117)
ConfigureOk(c) ==
    /\ proc = "up"
    /\ sess[c].pc = "configure"
    /\ sess' = [sess EXCEPT ![c].pc = "loop"]
    /\ UNCHANGED <<running, proc, mainpc, listenfd, nconn, conn, tun, parseVars>>

----------------------------------------------------------------------------
(* handle_client: the forwarding loop (l.120-212) *)

\* LoopCheck as it would be with while (1) at l.120: C6 does not hold of it
LoopCheckDeaf(c) ==
    /\ proc = "up"
    /\ sess[c].pc = "loop"
    /\ sess' = [sess EXCEPT ![c] = [NoSess EXCEPT !.pc = "select"]]
    /\ UNCHANGED <<running, proc, mainpc, listenfd, nconn, conn, tun, parseVars>>

\* while (running), l.120; a new iteration starts with fresh locals
LoopCheck(c) ==
    /\ proc = "up"
    /\ sess[c].pc = "loop"
    /\ sess' = [sess EXCEPT ![c] =
                  IF running # 0
                  THEN [NoSess EXCEPT !.pc = "select"]
                  ELSE [NoSess EXCEPT !.pc = "cleanup", !.sockev = <<"while", "stop">>]]
    /\ UNCHANGED <<running, proc, mainpc, listenfd, nconn, conn, tun, parseVars>>

\* select fails with an errno other than EINTR: break (l.128-131)
SelectError(c) ==
    /\ proc = "up"
    /\ sess[c].pc = "select"
    /\ sess' = [sess EXCEPT ![c].pc = "cleanup", ![c].activity = -1,
                             ![c].sockev = <<"select", "error">>]
    /\ UNCHANGED <<running, proc, mainpc, listenfd, nconn, conn, tun, parseVars>>

\* select returns 0 after its one-second timeout: continue (l.133-136). No
\* packet waits on the TUN device and what the peer sent, if anything, has
\* not arrived yet.
SelectTimeout(c) ==
    /\ proc = "up"
    /\ sess[c].pc = "select"
    /\ tun[c].queue = <<>>
    /\ sess' = [sess EXCEPT ![c].pc = "loop"]
    /\ UNCHANGED <<running, proc, mainpc, listenfd, nconn, conn, tun, parseVars>>

\* select returns > 0 with read_fds holding the readable handles: the TUN
\* device when a packet waits on it, the socket when bytes of the stream, or
\* its end, have arrived
SelectReady(c, socket) ==
    /\ proc = "up"
    /\ sess[c].pc = "select"
    /\ socket => (Remaining(conn[c]) > 0 \/ conn[c].peer # "open")
    /\ socket \/ tun[c].queue # <<>>
    /\ LET read_fds == (IF socket THEN {"sock"} ELSE {})
                        \cup (IF tun[c].queue # <<>> THEN {"tun"} ELSE {})
       IN sess' = [sess EXCEPT ![c].pc = "sock", ![c].ready = read_fds,
                               ![c].activity = Cardinality(read_fds)]
    /\ UNCHANGED <<running, proc, mainpc, listenfd, nconn, conn, tun, parseVars>>

\* recv(client_fd, ., n, 0) on the non-blocking socket s: some of the unread
\* bytes, up to n (the stream arrives in pieces of any size); 0 at the end of
\* the stream; EAGAIN when nothing has arrived; or a failure (ECONNRESET once
\* the peer has answered with a reset, or another errno).
\* n > 0 is a byte count, n = 0 end-of-stream, n = -1 a failure.
RecvResults(s, n) ==
    {[n |-> k, errno |-> "-"] : k \in 1..Min(n, Remaining(s))}
    \cup (IF Remaining(s) = 0 /\ s.peer # "open" THEN {[n |-> 0, errno |-> "-"]} ELSE {})
    \cup (IF Remaining(s) > 0 \/ s.peer = "open" THEN {[n |-> -1, errno |-> "EAGAIN"]} ELSE {})
    \cup {[n |-> -1, errno |-> "ECONNRESET"]}

\* the k bytes of the stream that a recv returning k hands over
Received(s, k) == SubSeq(Wire(s), s.rpos + 1, s.rpos + k)

\* the socket after a recv that returned k bytes
Advance(s, k) == [s EXCEPT !.rpos = @ + k]

\* how a read of the prefix or of the payload that returned r.n <= 0 is named
RecvEvent(what, r) ==
    IF r.n = 0 THEN <<what, "eof">>
    ELSE IF r.errno = "EAGAIN" THEN <<what, "again">> ELSE <<what, "error">>

\* l.139-178: read the length prefix with one recv, convert and validate it,
\* read the payload with one recv, write what that returned to the TUN device.
\* A recv that returns fewer than 4 bytes leaves the other bytes of
\* packet_length as they were: uninitialized. A failed write is reported and
\* the iteration goes on.
ClientRead(c) ==
    /\ proc = "up"
    /\ sess[c].pc = "sock"
    /\ IF "sock" \notin sess[c].ready
       THEN /\ sess' = [sess EXCEPT ![c].pc = "tun"]
            /\ UNCHANGED <<conn, tun>>
       ELSE \E r1 \in RecvResults(conn[c], PREFIX_LEN) :
              IF r1.n <= 0
              THEN /\ sess' = [sess EXCEPT ![c].pc = "cleanup",
                                           ![c].sockev = RecvEvent("prefix", r1)]
                   /\ UNCHANGED <<conn, tun>>
              ELSE \E junk \in [1..(PREFIX_LEN - r1.n) -> UninitBytes] :
                LET packet_length == ntohl(Received(conn[c], r1.n) \o junk)
                    s1 == Advance(conn[c], r1.n)
                    it == [sess[c] EXCEPT !.packet_length = packet_length,
                                          !.got = r1.n, !.at = conn[c].rpos]
                IN IF InvalidLength(packet_length)
                   THEN /\ sess' = [sess EXCEPT ![c] =
                                 [it EXCEPT !.pc = "loop", !.sockev = <<"prefix", "rejected">>]]
                        /\ conn' = [conn EXCEPT ![c] = s1]
                        /\ tun' = tun
                   ELSE \E r2 \in RecvResults(s1, packet_length) :
                          IF r2.n <= 0
                          THEN /\ sess' = [sess EXCEPT ![c] =
                                     [it EXCEPT !.pc = "loop",
                                                !.sockev = RecvEvent("payload", r2)]]
                               /\ conn' = [conn EXCEPT ![c] = s1]
                               /\ tun' = tun
                          ELSE \E bytes_written \in {r2.n, -1} :
                               /\ sess' = [sess EXCEPT ![c] =
                                     [it EXCEPT !.pc = "tun",
                                        !.packet_buffer = Received(s1, r2.n),
                                        !.sockev = IF bytes_written < 0
                                                   THEN <<"write", "error">>
                                                   ELSE <<"write", "ok">>]]
                               /\ conn' = [conn EXCEPT ![c] = Advance(s1, r2.n)]
                               /\ tun' = [tun EXCEPT ![c].nwr = @ + 1]
    /\ UNCHANGED <<running, proc, mainpc, listenfd, nconn, parseVars>>

\* send(client_fd, ., n, 0) on the non-blocking socket, by the state ps of the
\* connection: all n bytes, a part of them, EAGAIN, or another errno. Bytes
\* sent to a peer that has closed make it answer with a reset; once that has
\* arrived send fails with EPIPE and raises SIGPIPE, which the program neither
\* handles nor ignores.
SendResults(ps, n) ==
    {[n |-> k, errno |-> "-"] : k \in 1..n}
    \cup {[n |-> -1, errno |-> e] : e \in {"EAGAIN", "ENOBUFS"}}
    \cup (IF ps = "finsent" THEN {[n |-> -1, errno |-> "EPIPE"]} ELSE {})

\* the socket after send returned r: r.n bytes of data went out
Sent(s, data, r) ==
    IF r.n <= 0 THEN s
    ELSE [s EXCEPT !.out = @ \o SubSeq(data, 1, r.n),
                   !.peer = IF @ = "fin" THEN "finsent" ELSE @]

\* the session goes on at pc with its socket s and its TUN handle t
GoOn(c, pc, ev, s, t) ==
    /\ sess' = [sess EXCEPT ![c].pc = pc, ![c].tunev = ev]
    /\ conn' = [conn EXCEPT ![c] = s]
    /\ tun' = [tun EXCEPT ![c] = t]
    /\ UNCHANGED <<proc, listenfd>>

\* SIGPIPE with its default disposition ends the process: every thread stops
\* and the kernel releases every handle, the listening socket included
Sigpipe ==
    /\ proc' = "killed"
    /\ listenfd' = "closed"
    /\ conn' = [d \in Conns |-> Released(conn[d], NoConn)]
    /\ tun' = [d \in Conns |-> Released(tun[d], NoTun)]
    /\ sess' = [d \in Conns |-> Ended(sess[d])]

\* where l.190-194 and l.198-202 go after a send that returned -1
AfterSendError(errno) == IF errno = "EAGAIN" THEN "loop" ELSE "cleanup"

SendEvent(what, r) ==
    IF r.errno = "EAGAIN" THEN <<what, "again">> ELSE <<what, "error">>

\* l.180-211: read one packet from the TUN device, send its length, then its
\* bytes. After a send of the prefix that returned 1..3 bytes errno is what an
\* earlier call left in it, so l.191 may or may not break.
TunRead(c) ==
    /\ proc = "up"
    /\ sess[c].pc = "tun"
    /\ \/ /\ "tun" \notin sess[c].ready
          /\ GoOn(c, "loop", <<"-", "-">>, conn[c], tun[c])
       \/ /\ "tun" \in sess[c].ready
          /\ tun[c].queue = <<>>
          /\ GoOn(c, "loop", <<"tunread", "again">>, conn[c], tun[c])
       \/ /\ "tun" \in sess[c].ready
          /\ GoOn(c, "cleanup", <<"tunread", "error">>, conn[c], tun[c])
       \/ /\ "tun" \in sess[c].ready
          /\ tun[c].queue # <<>>
          /\ LET packet == Head(tun[c].queue)
                 t == [tun[c] EXCEPT !.queue = Tail(@), !.rd = Append(@, packet)]
             IN \E r1 \in SendResults(conn[c].peer, PREFIX_LEN) :
                  LET s1 == Sent(conn[c], htonl(Len(packet)), r1) IN
                    IF r1.errno = "EPIPE" THEN Sigpipe
                    ELSE IF r1.n < 0
                    THEN GoOn(c, AfterSendError(r1.errno), SendEvent("sendprefix", r1), s1, t)
                    ELSE IF r1.n # PREFIX_LEN
                    THEN \E stale \in {"EAGAIN", "EINTR"} :
                           GoOn(c, AfterSendError(stale), <<"sendprefix", "partial">>, s1, t)
                    ELSE \E r2 \in SendResults(s1.peer, Len(packet)) :
                           LET s2 == Sent(s1, packet, r2) IN
                             IF r2.errno = "EPIPE" THEN Sigpipe
                             ELSE IF r2.n < 0
                             THEN GoOn(c, AfterSendError(r2.errno),
                                       SendEvent("sendpayload", r2), s2, t)
                             ELSE GoOn(c, "loop", <<"sendpayload", "ok">>, s2, t)
    /\ UNCHANGED <<running, mainpc, nconn, parseVars>>

\* Cleanup as it would be inside the loop, followed by a continue: C17 does
\* not hold of it
CleanupRetry(c) ==
    /\ proc = "up"
    /\ sess[c].pc = "cleanup"
    /\ tun' = [tun EXCEPT ![c] = CloseTun(@)]
    /\ conn' = [conn EXCEPT ![c] = Close(@, c)]
    /\ sess' = [sess EXCEPT ![c] = [NoSess EXCEPT !.pc = "loop"]]
    /\ UNCHANGED <<running, proc, mainpc, listenfd, nconn, parseVars>>

\* Cleanup as it would be without the close(tun_fd) of l.216: C5 does not
\* hold of it
CleanupLeak(c) ==
    /\ proc = "up"
    /\ sess[c].pc = "cleanup"
    /\ conn' = [conn EXCEPT ![c] = Close(@, c)]
    /\ sess' = [sess EXCEPT ![c] =
                  [NoSess EXCEPT !.pc = "done", !.sockev = <<"cleanup", "done">>]]
    /\ UNCHANGED <<running, proc, mainpc, listenfd, nconn, tun, parseVars>>

\* l.214-220: close(tun_fd); close(client_fd); free(client); return
Cleanup(c) ==
    /\ proc = "up"
    /\ sess[c].pc = "cleanup"
    /\ tun' = [tun EXCEPT ![c] = CloseTun(@)]
    /\ conn' = [conn EXCEPT ![c] = Close(@, c)]
    /\ sess' = [sess EXCEPT ![c] =
                  [NoSess EXCEPT !.pc = "done", !.sockev = <<"cleanup", "done">>]]
    /\ UNCHANGED <<running, proc, mainpc, listenfd, nconn, parseVars>>

----------------------------------------------------------------------------
(* The environment of a session: its peer and its TUN device. *)

\* the peer writes one more frame declaring length d to its end of the stream
PeerSend(c, d) ==
    /\ proc = "up"
    /\ conn[c].fd = "open"
    /\ conn[c].peer = "open"
    /\ Load < MaxLoad
    /\ conn' = [conn EXCEPT ![c].sent = Append(@, Frame(Len(@) + 1, d))]
    /\ UNCHANGED <<running, proc, mainpc, listenfd, nconn, tun, sess, parseVars>>

\* the peer closes its end: end-of-stream follows the bytes it sent
PeerClose(c) ==
    /\ proc = "up"
    /\ conn[c].fd = "open"
    /\ conn[c].peer = "open"
    /\ conn' = [conn EXCEPT ![c].peer = "fin"]
    /\ UNCHANGED <<running, proc, mainpc, listenfd, nconn, tun, sess, parseVars>>

\* the kernel routes one more packet, of n bytes, to the session's TUN device
TunArrive(c, n) ==
    /\ proc = "up"
    /\ tun[c].fd = "open"
    /\ Load < MaxLoad
    /\ LET k == Len(tun[c].queue) + Len(tun[c].rd) + 1 IN
         tun' = [tun EXCEPT ![c].queue = Append(@, [i \in 1..n |-> TunByte(k, i)])]
    /\ UNCHANGED <<running, proc, mainpc, listenfd, nconn, conn, sess, parseVars>>

----------------------------------------------------------------------------

Session(c) ==
    \/ CreateTunOpenFail(c)
    \/ CreateTunIoctlFail(c)
    \/ CreateTunOk(c)
    \/ ConfigureFail(c)
    \/ ConfigureOk(c)
    \/ LoopCheck(c)
    \/ SelectError(c)
    \/ SelectTimeout(c)
    \/ \E socket \in BOOLEAN : SelectReady(c, socket)
    \/ ClientRead(c)
    \/ TunRead(c)
    \/ Cleanup(c)

Main ==
    \/ MainCheck
    \/ AcceptFail
    \/ AcceptAllocFail
    \/ AcceptSpawnFail
    \/ AcceptSpawn
    \/ MainCleanup

Signal ==
    \/ SignalHandler
    \/ SignalInterruptsAccept
    \/ \E c \in Conns : SignalInterruptsSelect(c)

Environment ==
    \E c \in Conns :
        \/ \E d \in DeclaredLengths : PeerSend(c, d)
        \/ PeerClose(c)
        \/ \E n \in 1..MaxPayload : TunArrive(c, n)

Next ==
    \/ Main
    \/ Signal
    \/ \E c \in Conns : Session(c)
    \/ Environment

Spec == Init /\ [][Next]_vars

----------------------------------------------------------------------------
(* The server under fair scheduling, with a lighter load. *)

\* the load of the executions checked for what eventually happens
MaxFairLoad == 2

LightLoad == Load <= MaxFairLoad

FairNext == Next /\ LightLoad'

\* A thread that can take a step is scheduled: every call a session makes
\* returns (the handles are non-blocking, select waits one second at most), and
\* so do l.278 and l.313-317 of main. accept() returns only when the
\* environment makes it: a connection arrives, or a signal interrupts it.
Fairness ==
    /\ \A c \in Conns : WF_vars(Session(c))
    /\ WF_vars(MainCheck)
    /\ WF_vars(MainCleanup)

FairSpec == Init /\ [][FairNext]_vars /\ Fairness

----------------------------------------------------------------------------
(* pkt_parse (pktparse.c), one statement at a time *)

\* longest input buffer
MaxPktLen == 80

\* sizeof(struct ip), l.17
IP_HDR_MIN == 20
\* sizeof(struct tcphdr), l.46
TCP_HDR_MIN == 20
\* IPPROTO_TCP, l.41
IPPROTO_TCP == 6
\* IPPROTO_UDP, the protocol of test_non_tcp_packet
IPPROTO_UDP == 17

\* test_packet of pktparse_test.c
TestPacket ==
    << 69, 0, 0, 60, 0, 1, 0, 0, 64, 6, 0, 0,
       192, 168, 1, 1,
       192, 168, 1, 2,
       4, 210, 0, 25,
       0, 0, 0, 0, 0, 0, 0, 0,
       80, 2, 32, 0, 0, 0, 0, 0 >>

\* the first bytes tried: version 4 with header lengths 5, 6, 15, 0 and 4 words,
\* version 6 with 5 words, version 0 with 5 words
VersionIhlBytes == {69, 70, 79, 64, 68, 101, 5}

\* the bytes tried where a TCP header holds its data offset: 5, 15, 0 and 4 words
DataOffsetBytes == {80, 240, 0, 64}

\* a buffer of n bytes with first byte vhl, protocol byte proto and the byte
\* off where its TCP header would hold the data offset; the other bytes differ
\* from their neighbours
Packet(n, vhl, proto, off) ==
    [i \in 1..n |->
        IF i = 1 THEN vhl
        ELSE IF i = 10 THEN proto
        ELSE IF i = (vhl % 16) * 4 + 13 THEN off
        ELSE (7 * i + 1) % 256]

Inputs ==
    {TestPacket, SubSeq(TestPacket, 1, 10)}
    \cup {Packet(n, vhl, proto, off) :
            n \in 0..MaxPktLen, vhl \in VersionIhlBytes,
            proto \in {IPPROTO_TCP, IPPROTO_UDP}, off \in DataOffsetBytes}

\* struct pkt_info after memset(info, 0, sizeof(*info)); addresses and ports
\* are kept as the bytes they hold in memory, first byte first
ZeroInfo ==
    [is_ipv4 |-> 0, is_tcp |-> 0, ip_src |-> <<0, 0, 0, 0>>, ip_dst |-> <<0, 0, 0, 0>>,
     tcp_src |-> <<0, 0>>, tcp_dst |-> <<0, 0>>, ip_header_len |-> 0, tcp_header_len |-> 0]

\* what the caller's struct pkt_info may hold before the call
StaleInfo ==
    [is_ipv4 |-> 1, is_tcp |-> 1, ip_src |-> <<9, 9, 9, 9>>, ip_dst |-> <<9, 9, 9, 9>>,
     tcp_src |-> <<9, 9>>, tcp_dst |-> <<9, 9>>, ip_header_len |-> 9, tcp_header_len |-> 9]

\* size_t len
len == Len(buf)

\* the values a read of buf[o] may give: the byte, or anything past the end
ByteAt(o) == IF o < len THEN {buf[o + 1]} ELSE {0, 255}

ParseInit ==
    /\ ppc = "memset"
    /\ buf \in Inputs
    /\ info \in {ZeroInfo, StaleInfo}
    /\ ihl = 0
    /\ ret = -1
    /\ reads = {}
    /\ checked = 0

\* return r
Return(r) ==
    /\ ret' = r
    /\ ppc' = "returned"

\* ParseMemset as it would be without the memset of l.14: C10 does not hold
\* of it
ParseMemsetSkipped ==
    /\ ppc = "memset"
    /\ ppc' = "check_len"
    /\ UNCHANGED <<buf, info, ihl, ret, reads, checked, serverVars>>

\* l.14: memset(info, 0, sizeof(*info))
ParseMemset ==
    /\ ppc = "memset"
    /\ info' = ZeroInfo
    /\ ppc' = "check_len"
    /\ UNCHANGED <<buf, ihl, ret, reads, checked, serverVars>>

\* l.17-19: if (len < sizeof(struct ip)) return 0
ParseCheckLen ==
    /\ ppc = "check_len"
    /\ IF len < IP_HDR_MIN
       THEN Return(0) /\ UNCHANGED checked
       ELSE ppc' = "check_version" /\ checked' = IP_HDR_MIN /\ UNCHANGED ret
    /\ UNCHANGED <<buf, info, ihl, reads, serverVars>>

\* l.21-26: if (iph->ip_v != 4) return 0; ip_v is the high half of byte 0
ParseCheckVersion ==
    /\ ppc = "check_version"
    /\ \E b \in ByteAt(0) :
         IF b \div 16 # 4
         THEN Return(0)
         ELSE ppc' = "check_ihl" /\ UNCHANGED ret
    /\ reads' = reads \cup {0}
    /\ UNCHANGED <<buf, info, ihl, checked, serverVars>>

\* l.29-32: int ihl = iph->ip_hl * 4; if (len < ihl) return 0; ip_hl is the
\* low half of byte 0
ParseCheckIhl ==
    /\ ppc = "check_ihl"
    /\ \E b \in ByteAt(0) :
         /\ ihl' = (b % 16) * 4
         /\ IF len < ihl'
            THEN Return(0) /\ UNCHANGED checked
            ELSE /\ ppc' = "fill_ip"
                 /\ checked' = IF ihl' > checked THEN ihl' ELSE checked
                 /\ UNCHANGED ret
    /\ reads' = reads \cup {0}
    /\ UNCHANGED <<buf, info, serverVars>>

\* l.35-38: is_ipv4, ip_header_len, ip_src (bytes 12..15), ip_dst (bytes 16..19)
ParseFillIp ==
    /\ ppc = "fill_ip"
    /\ \E s1 \in ByteAt(12), s2 \in ByteAt(13), s3 \in ByteAt(14), s4 \in ByteAt(15),
          d1 \in ByteAt(16), d2 \in ByteAt(17), d3 \in ByteAt(18), d4 \in ByteAt(19) :
         info' = [info EXCEPT !.is_ipv4 = 1, !.ip_header_len = ihl,
                              !.ip_src = <<s1, s2, s3, s4>>,
                              !.ip_dst = <<d1, d2, d3, d4>>]
    /\ reads' = reads \cup (12..19)
    /\ ppc' = "check_proto"
    /\ UNCHANGED <<buf, ihl, ret, checked, serverVars>>

\* l.41-43: if (iph->ip_p != IPPROTO_TCP) return 1; ip_p is byte 9
ParseCheckProto ==
    /\ ppc = "check_proto"
    /\ \E b \in ByteAt(9) :
         IF b # IPPROTO_TCP
         THEN Return(1)
         ELSE ppc' = "check_tcp_len" /\ UNCHANGED ret
    /\ reads' = reads \cup {9}
    /\ UNCHANGED <<buf, info, ihl, checked, serverVars>>

\* ParseCheckTcpLen as it would be without the test of l.46-48: C9 does not
\* hold of it
ParseCheckTcpLenSkipped ==
    /\ ppc = "check_tcp_len"
    /\ ppc' = "fill_tcp"
    /\ UNCHANGED <<buf, info, ihl, ret, reads, checked, serverVars>>

\* l.46-48: if (len < ihl + sizeof(struct tcphdr)) return 1
ParseCheckTcpLen ==
    /\ ppc = "check_tcp_len"
    /\ IF len < ihl + TCP_HDR_MIN
       THEN Return(1) /\ UNCHANGED checked
       ELSE ppc' = "fill_tcp" /\ checked' = ihl + TCP_HDR_MIN /\ UNCHANGED ret
    /\ UNCHANGED <<buf, info, ihl, reads, serverVars>>

\* ParseFillTcp as it would be with ntohs() applied to th_sport and th_dport
\* on a little-endian host: C11 does not hold of it
ParseFillTcpSwapped ==
    /\ ppc = "fill_tcp"
    /\ \E off \in ByteAt(ihl + 12), s1 \in ByteAt(ihl), s2 \in ByteAt(ihl + 1),
          d1 \in ByteAt(ihl + 2), d2 \in ByteAt(ihl + 3) :
         info' = [info EXCEPT !.is_tcp = 1, !.tcp_header_len = (off \div 16) * 4,
                              !.tcp_src = <<s2, s1>>, !.tcp_dst = <<d2, d1>>]
    /\ reads' = reads \cup (ihl .. ihl + 3) \cup {ihl + 12}
    /\ Return(1)
    /\ UNCHANGED <<buf, ihl, checked, serverVars>>

\* l.51-57: is_tcp, tcp_header_len = th_off * 4 (th_off is the high half of
\* byte ihl+12), tcp_src (bytes ihl, ihl+1), tcp_dst (bytes ihl+2, ihl+3);
\* return 1
ParseFillTcp ==
    /\ ppc = "fill_tcp"
    /\ \E off \in ByteAt(ihl + 12), s1 \in ByteAt(ihl), s2 \in ByteAt(ihl + 1),
          d1 \in ByteAt(ihl + 2), d2 \in ByteAt(ihl + 3) :
         info' = [info EXCEPT !.is_tcp = 1, !.tcp_header_len = (off \div 16) * 4,
                              !.tcp_src = <<s1, s2>>, !.tcp_dst = <<d1, d2>>]
    /\ reads' = reads \cup (ihl .. ihl + 3) \cup {ihl + 12}
    /\ Return(1)
    /\ UNCHANGED <<buf, ihl, checked, serverVars>>

ParseNext ==
    \/ ParseMemset
    \/ ParseCheckLen
    \/ ParseCheckVersion
    \/ ParseCheckIhl
    \/ ParseFillIp
    \/ ParseCheckProto
    \/ ParseCheckTcpLen
    \/ ParseFillTcp

ParseStart == ServerInit /\ ParseInit

ParseSpec == ParseStart /\ [][ParseNext]_vars

----------------------------------------------------------------------------
(* The claims about the frame codec of handle_client. *)

\* the offset in the stream of socket s at which its k-th frame starts
Offset(s, k) == Len(Flatten([j \in 1..(k - 1) |-> FrameBytes(s.sent[j])]))

\* the frames of socket s that start at stream offset o
FramesAt(s, o) == {k \in 1..Len(s.sent) : Offset(s, k) = o}

\* the current iteration of session c got as far as validating a length
Validated(c) ==
    \/ sess[c].sockev = <<"prefix", "rejected">>
    \/ sess[c].sockev[1] \in {"payload", "write"}

\* the current iteration of session c handed a packet to write()
Wrote(c) == sess[c].sockev[1] = "write"

\* C1: when a session has read the whole 4-byte prefix of a well-formed frame
\* at the frame's start and hands a packet to the interface, that packet is
\* the frame's payload: all its N bytes, unchanged and in order, however the
\* stream delivered them.
C1_RoundTrip ==
    \A c \in Conns :
        \A k \in FramesAt(conn[c], sess[c].at) :
            (Wrote(c) /\ sess[c].got = PREFIX_LEN /\ WellFormed(conn[c].sent[k]))
                => sess[c].packet_buffer = conn[c].sent[k].payload

\* C2: whenever a session validates a length it holds 4 prefix bytes read from
\* the stream, they start at a frame boundary, and the length is their
\* network-order value, i.e. the length that frame declares.
C2_PrefixDecoded ==
    \A c \in Conns :
        Validated(c) =>
            /\ sess[c].got = PREFIX_LEN
            /\ FramesAt(conn[c], sess[c].at) # {}
            /\ \A k \in FramesAt(conn[c], sess[c].at) :
                   sess[c].packet_length = conn[c].sent[k].declared

IsPrefix(s, t) == Len(s) <= Len(t) /\ SubSeq(t, 1, Len(s)) = s

\* out is the concatenation of the frames of some of the packets pkts, in order
RECURSIVE FramesOf(_, _)
FramesOf(out, pkts) ==
    \/ out = <<>>
    \/ /\ pkts # <<>>
       /\ \/ /\ IsPrefix(Encode(Head(pkts)), out)
             /\ FramesOf(SubSeq(out, Len(Encode(Head(pkts))) + 1, Len(out)), Tail(pkts))
          \/ FramesOf(out, Tail(pkts))

\* C3: between iterations, the bytes a session has sent on its socket are a
\* concatenation of complete frames, each the 4-byte prefix and all the bytes
\* of one packet read from the interface; a packet is sent whole or not at all.
C3_WholeFrames ==
    \A c \in Conns : FramesOf(conn[c].out, tun[c].rd)

\* the current iteration of session c read at the start of a well-formed frame
\* that follows a malformed one, and no recv of it ended the stream or failed
AfterRejected(c, k) ==
    /\ k > 1
    /\ k \in FramesAt(conn[c], sess[c].at)
    /\ ~WellFormed(conn[c].sent[k - 1])
    /\ WellFormed(conn[c].sent[k])
    /\ sess[c].sockev[1] \in {"prefix", "payload", "write"}
    /\ sess[c].sockev[2] \in {"rejected", "again", "ok"}
    /\ sess[c].sockev # <<"prefix", "again">>

\* C4: a length is rejected exactly when it is 0 or above 65535; a rejection
\* keeps the session in the loop and hands nothing to the interface; and the
\* well-formed frame that follows a rejected one is decoded and its payload
\* written to the interface.
C4_RejectAndGoOn ==
    \A c \in Conns :
        /\ Validated(c) =>
              (sess[c].sockev = <<"prefix", "rejected">>
                  <=> ~(1 <= sess[c].packet_length /\ sess[c].packet_length <= MAX_PACKET))
        /\ sess[c].sockev = <<"prefix", "rejected">> =>
              (sess[c].pc = "loop" /\ sess[c].packet_buffer = <<>> /\ conn[c].fd = "open")
        /\ \A k \in 1..Len(conn[c].sent) :
              AfterRejected(c, k) =>
                  (Wrote(c) /\ sess[c].packet_buffer = conn[c].sent[k].payload)

----------------------------------------------------------------------------
(* The claims about the handles and the shutdown. *)

\* C5: no handle is closed twice; when handle_client has returned, its socket
\* has been closed once, by the session, and its TUN handle, if open() gave
\* one, has been closed once.
C5_ClosedOnce ==
    \A c \in Conns :
        /\ conn[c].closes <= 1
        /\ tun[c].closes <= 1
        /\ sess[c].pc = "done" =>
              /\ conn[c].fd = "closed" /\ conn[c].closes = 1 /\ conn[c].by = {c}
              /\ tun[c].fd # "open"
              /\ tun[c].closes = (IF tun[c].fd = "closed" THEN 1 ELSE 0)

\* C5, its case: a session has left its loop and returned through l.214-220
\* with both its handles closed once, and another has returned at l.100
\* without a TUN handle
C5_Witness ==
    \E c, d \in Conns :
        /\ sess[c].pc = "done" /\ sess[c].sockev = <<"cleanup", "done">>
        /\ conn[c].closes = 1 /\ tun[c].closes = 1
        /\ sess[d].pc = "done" /\ conn[d].closes = 1 /\ tun[d].fd = "none"

\* session c is in its forwarding loop
Forwarding(c) == sess[c].pc \in {"loop", "select", "sock", "tun"}

\* session c has ended, by returning or with the process, and its handles
\* are closed
Closed(c) ==
    /\ sess[c].pc \in {"done", "gone"}
    /\ conn[c].fd = "closed"
    /\ tun[c].fd = "closed"

\* C6: once running is 0 no session enters select again, and every session
\* that is in its forwarding loop eventually has ended with its socket and
\* its TUN handle closed.
C6_ShutdownEndsSessions ==
    /\ [][\A c \in Conns :
             (running = 0 /\ sess'[c].pc = "select") => sess[c].pc = "select"]_vars
    /\ \A c \in Conns : (running = 0 /\ Forwarding(c)) ~> Closed(c)

\* C6, its case: a session left its loop at l.120 because running was 0 and
\* is about to close its handles
C6_Witness ==
    \E c \in Conns :
        /\ running = 0
        /\ sess[c].pc = "cleanup"
        /\ sess[c].sockev = <<"while", "stop">>
        /\ conn[c].fd = "open"
        /\ tun[c].fd = "open"

\* C7: once running is 0, main eventually leaves the accept loop and closes
\* the listening socket, also when no client connects any more.
C7_AcceptLoopExits == (running = 0) ~> (listenfd = "closed")

\* C8: the listening socket is closed only when running is 0.
C8_ClosedOnlyOnShutdown == listenfd = "closed" => running = 0

----------------------------------------------------------------------------
(* The claims about pkt_parse. *)

\* C9: every offset pkt_parse has read is below len and below the length that
\* the checks passed so far have established.
C9_ReadsInBounds == \A o \in reads : o < len /\ o < checked

\* C9, its case: a TCP packet with the longest IP header and not a byte more
\* than the TCP header needs, parsed to the end
C9_Witness ==
    /\ ppc = "returned"
    /\ info.is_tcp = 1
    /\ ihl = 60
    /\ len = ihl + TCP_HDR_MIN
    /\ (ihl + 12) \in reads

\* C10: pkt_parse returns 0 for a buffer shorter than 20 bytes, for a version
\* other than 4, and for a buffer shorter than 4 times its header-length
\* field; every field of *info is then zero.
C10_FailsZeroed ==
    (ppc = "returned" /\ (\/ len < IP_HDR_MIN
                          \/ buf[1] \div 16 # 4
                          \/ len < (buf[1] % 16) * 4))
        => (ret = 0 /\ info = ZeroInfo)

\* C10, its case: version 4, at least 20 bytes, fewer than the header-length
\* field asks for
C10_Witness ==
    /\ ppc = "returned"
    /\ len >= IP_HDR_MIN
    /\ buf[1] \div 16 = 4
    /\ len < (buf[1] % 16) * 4
    /\ ret = 0


\* the IP header length a buffer declares: 4 times the low half of byte 0
DeclaredIhl == (buf[1] % 16) * 4

\* the bytes of buf at offsets o .. o+n-1
Field(o, n) == SubSeq(buf, o + 1, o + n)

\* C11: when pkt_parse returns 1, is_ipv4 is 1, ip_header_len is the declared
\* header length and ip_src, ip_dst are bytes 12..15 and 16..19; is_tcp is 1
\* exactly when byte 9 is 6 and len >= header length + 20; then the ports are
\* the 2-byte fields at the header length and 2 after it, verbatim, and
\* tcp_header_len is 4 times the data-offset field; otherwise every TCP field
\* is zero. The packet of pktparse_test.c gives 20, 20 and the ports 1234 and
\* 25 in network order.
C11_Classified ==
    (ppc = "returned" /\ ret = 1) =>
        /\ info.is_ipv4 = 1
        /\ info.ip_header_len = DeclaredIhl
        /\ info.ip_src = Field(12, 4)
        /\ info.ip_dst = Field(16, 4)
        /\ info.is_tcp = 1 <=> (buf[10] = IPPROTO_TCP /\ len >= DeclaredIhl + TCP_HDR_MIN)
        /\ info.is_tcp = 1 =>
              /\ info.tcp_src = Field(DeclaredIhl, 2)
              /\ info.tcp_dst = Field(DeclaredIhl + 2, 2)
              /\ info.tcp_header_len = (buf[DeclaredIhl + 13] \div 16) * 4
        /\ info.is_tcp # 1 =>
              /\ info.is_tcp = 0
              /\ info.tcp_src = <<0, 0>>
              /\ info.tcp_dst = <<0, 0>>
              /\ info.tcp_header_len = 0
        /\ buf = TestPacket =>
              /\ info.ip_header_len = 20
              /\ info.tcp_header_len = 20
              /\ info.tcp_src = <<4, 210>>
              /\ info.tcp_dst = <<0, 25>>

\* C11, its case: the packet of test_valid_tcp_packet parsed to the end
C11_Witness ==
    /\ ppc = "returned"
    /\ ret = 1
    /\ buf = TestPacket
    /\ info.is_tcp = 1
    /\ info.tcp_src = <<4, 210>>


\* C12: when pkt_parse returns 1, ip_header_len is a multiple of 4 in 20..60
\* and at most len; when is_tcp is 1, tcp_header_len is a multiple of 4 in
\* 20..60 and ip_header_len + tcp_header_len is at most len.
C12_HeaderLengths ==
    (ppc = "returned" /\ ret = 1) =>
        /\ info.ip_header_len % 4 = 0
        /\ info.ip_header_len >= 20 /\ info.ip_header_len <= 60
        /\ info.ip_header_len <= len
        /\ info.is_tcp = 1 =>
              /\ info.tcp_header_len % 4 = 0
              /\ info.tcp_header_len >= 20 /\ info.tcp_header_len <= 60
              /\ info.ip_header_len + info.tcp_header_len <= len


----------------------------------------------------------------------------
(* The claims about the outcomes of the calls of the forwarding loop. *)

\* the current iteration of session c saw a call fail with an errno other
\* than EAGAIN: select, a recv, the write, the read of the TUN device or a send
Fatal(c) == sess[c].sockev[2] = "error" \/ sess[c].tunev[2] = "error"

\* C13: a session that saw a call of its loop fail with an errno other than
\* EAGAIN has left the loop and is about to close its handles, whichever call
\* it was.
C13_FatalEndsSession ==
    \A c \in Conns : Fatal(c) => sess[c].pc = "cleanup"


\* the current iteration of session c saw a recv, the read of the TUN device
\* or a send fail with EAGAIN, and no call fail otherwise
Transient(c) ==
    /\ sess[c].sockev[2] = "again" \/ sess[c].tunev[2] = "again"
    /\ ~Fatal(c)

\* C14: a session that saw EAGAIN, and no other failure, goes back to the
\* head of its loop with both handles open.
C14_TransientGoesOn ==
    \A c \in Conns :
        Transient(c) =>
            (sess[c].pc = "loop" /\ conn[c].fd = "open" /\ tun[c].fd = "open")


----------------------------------------------------------------------------
(* The server when, moreover, what a peer has sent or closed arrives. *)

\* The end of a stream, and the bytes before it, arrive: a session that keeps
\* calling select is eventually told that its socket is readable.
Arrival == \A c \in Conns : SF_vars(SelectReady(c, TRUE))

ArrivalSpec == FairSpec /\ Arrival

\* session c has returned with both its handles closed, or main has returned
CleanEnd(c) ==
    \/ sess[c].pc = "done" /\ conn[c].fd = "closed" /\ tun[c].fd = "closed"
    \/ proc = "exited"

\* C15: a session that reads the end of the stream where a prefix starts
\* leaves its loop; and once the peer of a session in its loop has closed the
\* stream, also between a prefix and its payload, the session eventually
\* returns with both its handles closed (unless main returns first).
C15_PeerDisconnectCloses ==
    /\ [](\A c \in Conns : sess[c].sockev = <<"prefix", "eof">> => sess[c].pc = "cleanup")
    /\ \A c \in Conns : (conn[c].peer # "open" /\ Forwarding(c)) ~> CleanEnd(c)


----------------------------------------------------------------------------
(* The claims about the life of a session. *)

\* session c has not reached its loop yet
Connected(c) == sess[c].pc \in {"start", "configure"}

\* C16: a session that returns from its setup (l.100, l.109) has read nothing
\* from its socket and sent nothing on it, has read and written no packet,
\* closes its socket once and leaves no TUN handle open; the step changes
\* nothing of main or of another session; and a session that has returned
\* stays returned.
C16_SetupFailure ==
    [][\A c \in Conns :
         /\ (Connected(c) /\ sess'[c].pc = "done") =>
               /\ conn[c].rpos = 0 /\ conn[c].out = <<>>
               /\ tun[c].rd = <<>> /\ tun[c].nwr = 0
               /\ conn'[c].fd = "closed" /\ conn'[c].closes = 1 /\ conn'[c].by = {c}
               /\ tun'[c].fd # "open"
               /\ tun[c].fd = "open" => tun'[c].closes = 1
               /\ <<running, proc, mainpc, listenfd, nconn>>'
                     = <<running, proc, mainpc, listenfd, nconn>>
               /\ \A d \in Conns \ {c} :
                     sess'[d] = sess[d] /\ conn'[d] = conn[d] /\ tun'[d] = tun[d]
         /\ sess[c].pc = "done" => sess'[c].pc = "done"]_vars

\* C16, its case: a session has returned from its setup with its TUN handle
\* closed while another session waits in select and main still listens
C16_Witness ==
    \E c, d \in Conns :
        /\ sess[c].pc = "done"
        /\ sess[c].sockev = <<"-", "-">>
        /\ conn[c].closes = 1
        /\ tun[c].closes = 1
        /\ sess[d].pc = "select"
        /\ tun[d].fd = "open"
        /\ listenfd = "open"


\* how far a session is: 0 no thread yet, 1 Connected, 2 Forwarding,
\* 3 Closing, 4 Closed (returned, or ended with the process)
Stage(pc) ==
    CASE pc = "none" -> 0
      [] pc \in {"start", "configure"} -> 1
      [] pc \in {"loop", "select", "sock", "tun"} -> 2
      [] pc = "cleanup" -> 3
      [] pc \in {"done", "gone"} -> 4

\* C17: a session never goes back to an earlier stage, never leaves the last
\* one, and whenever it is in its loop, where it calls select, recv, read,
\* write and send, both its handles are open.
C17_StagesAdvance ==
    /\ [][\A c \in Conns :
             /\ Stage(sess'[c].pc) >= Stage(sess[c].pc)
             /\ Stage(sess[c].pc) = 4 => sess'[c] = sess[c]]_vars
    /\ [](\A c \in Conns :
             Forwarding(c) => (conn[c].fd = "open" /\ tun[c].fd = "open"))

\* C17, its case: a session went through setup, loop and cleanup and has
\* returned, and a later session is in its loop
C17_Witness ==
    \E c, d \in Conns :
        /\ sess[c].pc = "done"
        /\ sess[c].sockev = <<"cleanup", "done">>
        /\ conn[c].fd = "closed"
        /\ tun[c].fd = "closed"
        /\ Forwarding(d)


\* the current iteration of session c called recv on its socket
ReadSocket(c) == sess[c].sockev[1] \in {"prefix", "payload", "write"}

\* the current iteration of session c called read on its TUN handle
ReadTun(c) == sess[c].tunev[1] # "-"

\* C18: a session calls recv only in an iteration whose select returned
\* more than 0 with the socket in read_fds, and read on the TUN handle only in
\* one whose select returned more than 0 with the TUN handle in read_fds; so
\* after EINTR or a timeout it reads neither.
C18_ReadsWhenReported ==
    \A c \in Conns :
        /\ ReadSocket(c) => (sess[c].activity > 0 /\ "sock" \in sess[c].ready)
        /\ ReadTun(c) => (sess[c].activity > 0 /\ "tun" \in sess[c].ready)


----------------------------------------------------------------------------
(* The claims about the accept loop and the sessions it starts. *)

\* session c has called neither select nor recv, read, write or send
NoForwarding(c) ==
    /\ sess[c].pc \notin {"select", "sock", "tun"}
    /\ sess[c].activity = 0
    /\ ~ReadSocket(c) /\ ~ReadTun(c)
    /\ conn[c].rpos = 0 /\ conn[c].out = <<>>
    /\ tun[c].rd = <<>> /\ tun[c].nwr = 0

\* C19: the session of a connection that accept() returned when running was
\* 0 already never calls select, recv, read, write or send, and eventually
\* has ended with no handle of its own left open.
C19_LateConnection ==
    /\ [](\A c \in Conns : conn[c].late => NoForwarding(c))
    /\ \A c \in Conns :
          (conn[c].late /\ sess[c].pc # "none")
              ~> (Stage(sess[c].pc) = 4 /\ conn[c].fd = "closed" /\ tun[c].fd # "open")

\* C19, its case: a connection accepted after the signal, on which a frame
\* waits, whose session acquired its TUN handle, found running = 0 at l.120
\* and is about to close both handles
C19_Witness ==
    \E c \in Conns :
        /\ conn[c].late
        /\ conn[c].sent # <<>>
        /\ tun[c].fd = "open"
        /\ sess[c].pc = "cleanup"
        /\ sess[c].sockev = <<"while", "stop">>


\* C20: an accepted socket is closed at most once and by one owner: by main
\* when no thread was created for it, and then no session ever runs on it;
\* else by its own session only.
C20_OneOwner ==
    \A c \in Conns :
        /\ conn[c].closes <= 1
        /\ Cardinality(conn[c].by) = conn[c].closes
        /\ conn[c].by \subseteq {MainThread, c}
        /\ MainThread \in conn[c].by => sess[c].pc = "none"
        /\ sess[c].pc # "none" => conn[c].by \subseteq {c}
        /\ (c <= nconn /\ sess[c].pc = "none") => conn[c].by = {MainThread}

\* C20, its case: main has closed the socket of a connection for which no
\* thread could be created, and a session has closed its own
C20_Witness ==
    \E c, d \in Conns :
        /\ conn[c].by = {MainThread}
        /\ sess[c].pc = "none"
        /\ conn[d].by = {d}
        /\ sess[d].pc = "done"

====
